---- MODULE Spec2Model ----
(***************************************************************************)
(* MarineScope: the response cache (APICache), the retrying HTTP layer     *)
(* (api_request_with_cache) and the name-resolution chain                  *)
(* (search_worms_species_fast), modelled from src/MarineScope.py.          *)
(***************************************************************************)
EXTENDS Integers, Sequences, FiniteSets, TLC

\* ---------------------------------------------------------------- bounds
\* number of distinct AphiaIDs the registry answers with
NumIds == 3
\* longest list a registry search returns
MaxItems == 2
\* most candidate names the extractor finds in an article
MaxNames == 4
\* number of pool threads running api_request_with_cache at the same time
NumThreads == 2
\* number of distinct cache keys (request identities url + str(params))
NumKeys == 3
\* last clock tick the model explores (time.time() in clock ticks)
MaxTime == 3
\* largest retry budget a caller passes (the default is 2)
MaxRetries == 2
\* APICache.max_size, scaled down from 2000
max_size == 2
\* APICache.ttl, scaled down from 3600 seconds to clock ticks
ttl == 2
\* most consecutive calls of get_complete_species_data for one AphiaID
MaxCalls == 2
\* number of search terms of the browse catalog, scaled down from 17
NumSeeds == 2
\* largest offset and limit browse_marine_animals_fast is called with
MaxOffset == 1
MaxLimit == 2
\* most MarineSearchThreads the user starts
MaxQueries == 3
MaxOcc == 2         \* occurrences in one OBIS answer
MaxTokens == 4      \* tokens in one text

Keys == 1..NumKeys
Threads == 1..NumThreads
Ids == 1..NumIds
Payloads == {"p1", "p2"}
None == "None"
Values == Payloads \cup {None}
\* the four closures get_complete_species_data_parallel submits to its pool
Tasks == {"classification", "distribution", "obis", "wiki"}
\* the requests one enrichment can make: the base record, one per closure, the
\* image list, and the record under the key worms_record_<id> of the image fallback
Lookups == Tasks \cup {"record", "images", "picture"}
\* the search terms of browse_marine_animals_fast
Seeds == 1..NumSeeds

\* ------------------------------------------------------------ the state
VARIABLES
    cache,      \* APICache.cache: OrderedDict as a sequence of [k, v, t], oldest first
    now,        \* time.time()
    lastOp,     \* the call made directly on the cache that just ran, with its result
    lastSet,    \* history of direct calls: per key, the most recent set not evicted since
    stamp,      \* history of direct calls: per key in the cache, rank of its last hit or set
    pc,         \* api_request_with_cache: "idle" or "attempt" (inside the for loop)
    reqKey,     \* cache_key of the call in progress
    retries,    \* retries argument of the call in progress
    attempt,    \* loop variable attempt
    outcomes,   \* history: outcome of every requests.get of the current or last call
    sleeps,     \* history: time.sleep waits (milliseconds) of the current or last call
    storedNone, \* history: API_CACHE.set(cache_key, None) ran in the current or last call
    result,     \* return value of the last finished call
    negAt,      \* history: per key, when a call last returned absent on a definitive negative
    startNeg,   \* history: the current or last call began with a fresh, unevicted negative
    tpc,        \* per pool thread: where its api_request_with_cache call stands
    tkey,       \* per pool thread: cache_key of its call
    tdata,      \* per pool thread: data read by APICache.get (line 109)
    tval,       \* per pool thread: value its APICache.set is storing
    tguard,     \* per pool thread: the set runs inside the try body (an exception is caught)
    sq,         \* search_worms_species_fast: shape of clean_query
    spc,        \* search_worms_species_fast: the stage that runs next
    sresults,   \* results: AphiaIDs of the species records collected
    sstages,    \* history: the stages that issued requests, in order
    shit,       \* history: the first stage that ended with a record (0: none yet)
    scands,     \* history: candidate names searched by the encyclopedic stages (0: the title)
    scres,      \* history: per candidate name searched, the result of its search
    scalls,     \* history: AphiaIDs the last stage called get_complete_species_data for
    sgot,       \* history: AphiaIDs get_complete_species_data gave the last stage a record for
    sfrom,      \* history: per result, the registry record it was built from is accepted
    epc,        \* get_complete_species_data_parallel: "idle", "await", "exit" or "done"
    eid,        \* aphia_id
    eup,        \* what the upstream answers for this AphiaID
    ecalls,     \* history: calls made for this AphiaID so far
    ecache,     \* API_CACHE restricted to the requests of this AphiaID
    enet,       \* history: the requests the current or last call sent to the network
    efutures,   \* futures: per closure "unstarted", "running", its return value or "raised"
    eidx,       \* position of the loop over futures.items()
    eresults,   \* results
    egave,      \* history: the closures whose future.result timed out
    erecord,    \* return value of the current or last call: <<>> for None, or <<record>>
    eprev,      \* history: return value of the call before, for the same AphiaID
    bpc,        \* browse_marine_animals_fast: "idle", "loop" or "done"
    boffset,    \* offset
    blimit,     \* limit
    bcatalog,   \* what search_worms_species_fast returns for each search term
    bterms,     \* the search terms the loop has not reached yet
    marine_species,
    seen_aphia_ids,
    breturn,    \* return value of the last call
    uissued,    \* history: number of MarineSearchThreads started
    uthreads,   \* the MarineSearchThreads that are running
    uqueue,     \* finished signals emitted and not yet delivered to the GUI thread
    current_search_results, \* also the items of list_widget
    is_browsing,
    browse_offset,
    browse_more_btn, \* the Browse More button is visible
    opc,        \* extract_ocean_basins_fast: "idle" or "done"
    occ_results, \* obis_data['occurrences']['results']
    basins,
    oreturn,    \* return value of the last call
    npc,        \* extract_scientific_names_from_text_fast: "idle" or "done"
    ntext,      \* text, as its sequence of tokens
    scientific_names, \* the candidates collected by the loop over the patterns
    unique_names \* return value of the last call

cacheVars == <<cache, now, lastOp>>
histVars == <<lastSet, stamp>>
callVars == <<pc, reqKey, retries, attempt, outcomes, sleeps, storedNone, result, negAt, startNeg>>
threadVars == <<tpc, tkey, tdata, tval, tguard>>
searchVars == <<sq, spc, sresults, sstages, shit, scands, scres, scalls, sgot, sfrom>>
enrichVars == <<epc, eid, eup, ecalls, ecache, enet, efutures, eidx, eresults, egave, erecord, eprev>>
browseVars == <<bpc, boffset, blimit, bcatalog, bterms, marine_species, seen_aphia_ids, breturn>>
uiVars == <<uissued, uthreads, uqueue, current_search_results, is_browsing, browse_offset, browse_more_btn>>
basinVars == <<opc, occ_results, basins, oreturn>>
nameVars == <<npc, ntext, scientific_names, unique_names>>
textVars == <<basinVars, nameVars>>
restVars == <<enrichVars, browseVars, uiVars, textVars>>
vars == <<cacheVars, histVars, callVars, threadVars, searchVars, restVars>>

netCalls == Len(outcomes)

\* ------------------------------------------------- OrderedDict helpers
KeysOf(c) == {c[i].k : i \in 1..Len(c)}
Has(c, key) == key \in KeysOf(c)
IndexOf(c, key) == CHOOSE i \in 1..Len(c) : c[i].k = key
Entry(c, key) == c[IndexOf(c, key)]
\* del self.cache[key]
Remove(c, key) == SelectSeq(c, LAMBDA e : e.k # key)
\* self.cache.move_to_end(key)
MoveToEnd(c, key) == Append(Remove(c, key), Entry(c, key))
\* self.cache.popitem(last=False)
PopFirst(c) == Tail(c)
\* self.cache[key] = (value, time.time()): in place when present, appended when new
Assign(c, key, value, t) ==
    IF Has(c, key)
    THEN [i \in 1..Len(c) |-> IF c[i].k = key THEN [k |-> key, v |-> value, t |-> t] ELSE c[i]]
    ELSE Append(c, [k |-> key, v |-> value, t |-> t])

\* a get that refreshes the timestamp of the entry it hits
GetRefreshing(c, key, t) ==
    IF Has(c, key)
    THEN IF t - Entry(c, key).t < ttl
         THEN [cache |-> Assign(MoveToEnd(c, key), key, Entry(c, key).v, t),
               ret |-> Entry(c, key).v, hit |-> TRUE]
         ELSE [cache |-> Remove(c, key), ret |-> None, hit |-> FALSE]
    ELSE [cache |-> c, ret |-> None, hit |-> FALSE]

\* a get that leaves the entry it hits where it is in the order
GetNotMoving(c, key, t) ==
    IF Has(c, key)
    THEN IF t - Entry(c, key).t < ttl
         THEN [cache |-> c, ret |-> Entry(c, key).v, hit |-> TRUE]
         ELSE [cache |-> Remove(c, key), ret |-> None, hit |-> FALSE]
    ELSE [cache |-> c, ret |-> None, hit |-> FALSE]

\* APICache.get: the cache afterwards and the returned value
Get(c, key, t) ==
    IF Has(c, key)
    THEN IF t - Entry(c, key).t < ttl
         THEN [cache |-> MoveToEnd(c, key), ret |-> Entry(c, key).v, hit |-> TRUE]
         ELSE [cache |-> Remove(c, key), ret |-> None, hit |-> FALSE]
    ELSE [cache |-> c, ret |-> None, hit |-> FALSE]

\* a set that tests the capacity before it tests the key
SetEvictingFirst(c, key, value, t) ==
    LET c1 == IF Len(c) >= max_size THEN PopFirst(c)
              ELSE IF Has(c, key) THEN MoveToEnd(c, key)
              ELSE c
    IN Assign(c1, key, value, t)

\* a set that drops the expired entries before it tests the capacity
SetPurgingExpired(c, key, value, t) ==
    LET live == SelectSeq(c, LAMBDA e : e.k = key \/ t - e.t < ttl)
        c1 == IF Has(live, key) THEN MoveToEnd(live, key)
              ELSE IF Len(live) >= max_size THEN PopFirst(live)
              ELSE live
    IN Assign(c1, key, value, t)

\* APICache.set
Set(c, key, value, t) ==
    LET c1 == IF Has(c, key) THEN MoveToEnd(c, key)
              ELSE IF Len(c) >= max_size THEN PopFirst(c)
              ELSE c
    IN Assign(c1, key, value, t)

\* ------------------------------------------------------ history helpers
NoSet == [v |-> None, t |-> -1, read |-> FALSE]
\* renumber the ranks 1..n, keeping their order; 0 is "not in the cache"
Compact(s) == [k \in Keys |-> Cardinality({s[j] : j \in {i \in Keys : s[i] > 0 /\ s[i] < s[k]}})
                               + (IF s[k] > 0 THEN 1 ELSE 0)]
\* key becomes the most recently used; keys no longer cached lose their rank
Touch(s, key, c2) ==
    Compact([k \in Keys |-> IF k = key THEN NumKeys + 1 ELSE IF Has(c2, k) THEN s[k] ELSE 0])
Drop(s, c2) == Compact([k \in Keys |-> IF Has(c2, k) THEN s[k] ELSE 0])
\* the history after a set: evicted keys lose their lastSet
AfterSet(c2, key, value, t) ==
    [k \in Keys |-> IF k = key THEN [v |-> value, t |-> t, read |-> FALSE]
                    ELSE IF Has(c2, k) THEN lastSet[k] ELSE NoSet]
\* evicted keys lose their negative mark, and so does a key that is set
NegAfterSet(c2, key) == [k \in Keys |-> IF k = key \/ ~Has(c2, k) THEN -1 ELSE negAt[k]]

\* ------------------------------------------------------------- actions
Init ==
    /\ cache = <<>>
    /\ now = 0
    /\ lastOp = [op |-> "init"]
    /\ lastSet = [k \in Keys |-> NoSet]
    /\ stamp = [k \in Keys |-> 0]
    /\ pc = "idle"
    /\ reqKey = 1
    /\ retries = 0
    /\ attempt = 0
    /\ outcomes = <<>>
    /\ sleeps = <<>>
    /\ storedNone = FALSE
    /\ result = None
    /\ negAt = [k \in Keys |-> -1]
    /\ startNeg = FALSE
    /\ tpc = [t \in Threads |-> "idle"]
    /\ tkey = [t \in Threads |-> 1]
    /\ tdata = [t \in Threads |-> None]
    /\ tval = [t \in Threads |-> None]
    /\ tguard = [t \in Threads |-> FALSE]
    /\ sq = "short"
    /\ spc = "idle"
    /\ sresults = <<>>
    /\ sstages = <<>>
    /\ shit = 0
    /\ scands = <<>>
    /\ scalls = {}
    /\ scres = <<>>
    /\ sgot = {}
    /\ sfrom = <<>>
    /\ epc = "idle"
    /\ eid = 0
    /\ eup = [base |-> "absent", pic |-> FALSE, dist |-> FALSE, ans |-> [k \in Tasks \cup {"images"} |-> "neg"]]
    /\ ecalls = 0
    /\ ecache = [k \in Lookups |-> "neg"]
    /\ enet = {}
    /\ efutures = [k \in Tasks |-> "unstarted"]
    /\ eidx = 1
    /\ eresults = [k \in Tasks |-> "unset"]
    /\ egave = {}
    /\ erecord = <<>>
    /\ eprev = <<>>
    /\ bpc = "idle"
    /\ boffset = 0
    /\ blimit = 1
    /\ bcatalog = [s \in Seeds |-> <<>>]
    /\ bterms = {}
    /\ marine_species = <<>>
    /\ seen_aphia_ids = {}
    /\ breturn = <<>>
    /\ uissued = 0
    /\ uthreads = {}
    /\ uqueue = <<>>
    /\ current_search_results = <<>>
    /\ is_browsing = FALSE
    /\ browse_offset = 0
    /\ browse_more_btn = FALSE
    /\ opc = "idle"
    /\ occ_results = <<>>
    /\ basins = {}
    /\ oreturn = <<>>
    /\ npc = "idle"
    /\ ntext = <<>>
    /\ scientific_names = <<>>
    /\ unique_names = <<>>

\* the clock advances
Tick ==
    /\ now < MaxTime
    /\ now' = now + 1
    /\ lastOp' = [op |-> "tick"]
    /\ UNCHANGED <<cache, histVars, callVars, threadVars, searchVars, restVars>>

\* API_CACHE.get(key) called on its own
CacheGet(key) ==
    /\ LET g == Get(cache, key, now) IN
        /\ cache' = g.cache
        /\ lastOp' = [op |-> "get", key |-> key, ret |-> g.ret, hit |-> g.hit]
        /\ stamp' = IF g.hit THEN Touch(stamp, key, g.cache) ELSE Drop(stamp, g.cache)
        /\ lastSet' = IF g.hit THEN [lastSet EXCEPT ![key].read = TRUE] ELSE lastSet
    /\ UNCHANGED <<now, callVars, threadVars, searchVars, restVars>>

\* API_CACHE.set(key, value) called on its own
CacheSet(key, value) ==
    /\ cache' = Set(cache, key, value, now)
    /\ lastOp' = [op |-> "set", key |-> key, value |-> value,
                  present |-> Has(cache, key),
                  full |-> (Len(cache) >= max_size),
                  evicted |-> KeysOf(cache) \ KeysOf(cache'),
                  evictedLive |-> (\E e \in KeysOf(cache) \ KeysOf(cache') :
                                      now - Entry(cache, e).t < ttl),
                  prevHit |-> (lastOp.op = "get" /\ lastOp.hit)]
    /\ lastSet' = AfterSet(cache', key, value, now)
    /\ stamp' = Touch(stamp, key, cache')
    /\ UNCHANGED <<now, callVars, threadVars, searchVars, restVars>>

\* API_CACHE.clear()
CacheClear ==
    /\ cache # <<>>
    /\ cache' = <<>>
    /\ lastOp' = [op |-> "clear"]
    /\ lastSet' = [k \in Keys |-> NoSet]
    /\ stamp' = [k \in Keys |-> 0]
    /\ UNCHANGED <<now, callVars, threadVars, searchVars, restVars>>

NextCache ==
    \/ Tick
    \/ \E key \in Keys : CacheGet(key)
    \/ \E key \in Keys, value \in Values : CacheSet(key, value)
    \/ CacheClear

\* the cache driven by direct get, set and clear calls, one at a time
SpecCache == Init /\ [][NextCache]_vars

\* --------------------------------------------- api_request_with_cache
\* what one requests.get attempt can produce
Outcomes == {"s204", "s404", "s429", "s5xx", "empty", "json", "badjson", "timeout", "error"}
\* outcomes after which the loop may run another attempt
Retryable == {"s429", "timeout", "error"}
\* outcomes that say the resource does not exist
Definitive == {"s204", "s404", "empty"}
\* the parsed JSON body of a successful response
Body == "p1"

RECURSIVE Pow2(_)
Pow2(n) == IF n = 0 THEN 1 ELSE 2 * Pow2(n - 1)
\* a backoff that starts at 2 ** attempt seconds
WaitMsFromOne(out, a) == IF out = "s429" THEN 1000 * Pow2(a) ELSE 500
\* time.sleep argument in milliseconds: 2 ** (attempt + 1) seconds on 429, 0.5 seconds otherwise
WaitMs(out, a) == IF out = "s429" THEN 1000 * Pow2(a + 1) ELSE 500
\* the branch taken on an outcome: another attempt, or a value cached and returned
\* a loop that retries once more than its budget
ContinuesOnceMore(out, a, r) == out \in Retryable /\ a <= r
\* a loop that also retries a server error
ContinuesOnError(out, a, r) == out \in (Retryable \cup {"s5xx"}) /\ a < r
\* a loop that also retries a 404 and an empty body
ContinuesOnNegative(out, a, r) == out \in (Retryable \cup {"s404", "empty"}) /\ a < r
Continues(out, a, r) == out \in Retryable /\ a < r
\* a call that caches absence whatever the response
ReturnedAbsent(out) == None
Returned(out) == IF out = "json" THEN Body ELSE None

\* lines 564-570 and the entry into the for loop
ReqStart(key, r) ==
    /\ pc = "idle"
    /\ LET g == Get(cache, key, now) IN
        /\ cache' = g.cache
        /\ IF g.ret # None
           THEN pc' = "idle" /\ result' = g.ret
           ELSE pc' = "attempt" /\ result' = None
    /\ startNeg' = (negAt[key] >= 0 /\ now - negAt[key] < ttl)
    /\ reqKey' = key
    /\ retries' = r
    /\ attempt' = 0
    /\ outcomes' = <<>>
    /\ sleeps' = <<>>
    /\ storedNone' = FALSE
    /\ UNCHANGED <<now, lastOp, histVars, negAt, threadVars, searchVars, restVars>>

\* one iteration of the for loop, lines 572-657
ReqAttempt(out) ==
    /\ pc = "attempt"
    /\ outcomes' = Append(outcomes, out)
    /\ IF Continues(out, attempt, retries)
       THEN /\ sleeps' = Append(sleeps, WaitMs(out, attempt))
            /\ attempt' = attempt + 1
            /\ UNCHANGED <<cache, pc, storedNone, result, negAt>>
       ELSE /\ cache' = Set(cache, reqKey, Returned(out), now)
            /\ storedNone' = (storedNone \/ Returned(out) = None)
            /\ result' = Returned(out)
            /\ negAt' = [NegAfterSet(cache', reqKey) EXCEPT
                            ![reqKey] = IF out \in Definitive THEN now ELSE -1]
            /\ pc' = "idle"
            /\ UNCHANGED <<attempt, sleeps>>
    /\ UNCHANGED <<now, lastOp, histVars, reqKey, retries, startNeg, threadVars, searchVars, restVars>>

NextRequest ==
    \/ Tick
    \/ \E key \in Keys, r \in 0..MaxRetries : ReqStart(key, r)
    \/ \E out \in Outcomes : ReqAttempt(out)

\* calls of api_request_with_cache, one at a time, against an arbitrary upstream
SpecRequest == Init /\ [][NextRequest]_vars

\* ------------------------------- api_request_with_cache on pool threads
\* The tasks of the ThreadPoolExecutor (lines 1192-1198) call
\* api_request_with_cache on the one API_CACHE.  APICache takes no lock, so a
\* thread switch can fall between any two statements of get and set.  A pool
\* lives for one enrichment, so the clock is followed up to the first expiry.

\* a thread leaves its call: locals are dropped
Leave(t, where) ==
    /\ tpc' = [tpc EXCEPT ![t] = where]
    /\ tdata' = [tdata EXCEPT ![t] = None]
    /\ tval' = [tval EXCEPT ![t] = None]
    /\ tguard' = [tguard EXCEPT ![t] = FALSE]
Goto(t, where) == tpc' = [tpc EXCEPT ![t] = where]

\* line 568: API_CACHE.get(cache_key) is entered
TStart(t, key) ==
    /\ tpc[t] \in {"idle", "raised_get", "raised_set"}
    /\ tkey' = [tkey EXCEPT ![t] = key]
    /\ Goto(t, "get_in")
    /\ UNCHANGED <<searchVars, restVars, cacheVars, histVars, callVars, tdata, tval, tguard>>

\* line 108: if key in self.cache
TGetIn(t) ==
    /\ tpc[t] = "get_in"
    /\ Goto(t, IF Has(cache, tkey[t]) THEN "get_read" ELSE "fetch")
    /\ UNCHANGED <<searchVars, restVars, cacheVars, histVars, callVars, tkey, tdata, tval, tguard>>

\* lines 109-110: data, timestamp = self.cache[key]; the age test
TGetRead(t) ==
    /\ tpc[t] = "get_read"
    /\ IF Has(cache, tkey[t])
       THEN /\ tdata' = [tdata EXCEPT ![t] = Entry(cache, tkey[t]).v]
            /\ Goto(t, IF now - Entry(cache, tkey[t]).t < ttl THEN "get_move" ELSE "get_del")
            /\ UNCHANGED <<tval, tguard>>
       ELSE Leave(t, "raised_get")
    /\ UNCHANGED <<searchVars, restVars, cacheVars, histVars, callVars, tkey>>

\* lines 112-113 and 569-570: move_to_end, return data, the caller's None test
TGetMove(t) ==
    /\ tpc[t] = "get_move"
    /\ IF Has(cache, tkey[t])
       THEN /\ cache' = MoveToEnd(cache, tkey[t])
            /\ IF tdata[t] # None
               THEN Leave(t, "idle")
               ELSE Goto(t, "fetch") /\ UNCHANGED <<tdata, tval, tguard>>
       ELSE /\ Leave(t, "raised_get")
            /\ UNCHANGED cache
    /\ UNCHANGED <<now, lastOp, histVars, callVars, tkey, searchVars, restVars>>

\* lines 116-117: del self.cache[key]; return None
TGetDel(t) ==
    /\ tpc[t] = "get_del"
    /\ IF Has(cache, tkey[t])
       THEN /\ cache' = Remove(cache, tkey[t])
            /\ Goto(t, "fetch")
            /\ tdata' = [tdata EXCEPT ![t] = None]
            /\ UNCHANGED <<tval, tguard>>
       ELSE /\ Leave(t, "raised_get")
            /\ UNCHANGED cache
    /\ UNCHANGED <<now, lastOp, histVars, callVars, tkey, searchVars, restVars>>

\* lines 572-657 up to the API_CACHE.set of the iteration that returns: the
\* attempts that continue do not touch the cache.  guarded: the set is one of
\* the try body (lines 607-635), not one of an except clause (lines 642-656).
TFetch(t, out) ==
    /\ tpc[t] = "fetch"
    /\ tval' = [tval EXCEPT ![t] = Returned(out)]
    /\ tguard' = [tguard EXCEPT ![t] = (out \notin {"timeout", "error"})]
    /\ Goto(t, "set_in")
    /\ UNCHANGED <<searchVars, restVars, cacheVars, histVars, callVars, tkey, tdata>>

\* a KeyError inside APICache.set: caught by `except Exception` (line 651) in
\* the try body, where the loop continues or the handler sets None itself;
\* raised to the caller from an except clause
SetFails(t) ==
    IF tguard[t]
    THEN \/ Goto(t, "fetch") /\ UNCHANGED <<tval, tguard, tdata>>
         \/ /\ Goto(t, "set_in")
            /\ tval' = [tval EXCEPT ![t] = None]
            /\ tguard' = [tguard EXCEPT ![t] = FALSE]
            /\ UNCHANGED tdata
    ELSE Leave(t, "raised_set")

\* line 120: if key in self.cache
TSetIn(t) ==
    /\ tpc[t] = "set_in"
    /\ Goto(t, IF Has(cache, tkey[t]) THEN "set_move" ELSE "set_len")
    /\ UNCHANGED <<searchVars, restVars, cacheVars, histVars, callVars, tkey, tdata, tval, tguard>>

\* line 121: self.cache.move_to_end(key)
TSetMove(t) ==
    /\ tpc[t] = "set_move"
    /\ IF Has(cache, tkey[t])
       THEN /\ cache' = MoveToEnd(cache, tkey[t])
            /\ Goto(t, "set_store")
            /\ UNCHANGED <<tdata, tval, tguard>>
       ELSE /\ SetFails(t)
            /\ UNCHANGED cache
    /\ UNCHANGED <<now, lastOp, histVars, callVars, tkey, searchVars, restVars>>

\* line 122: elif len(self.cache) >= self.max_size
TSetLen(t) ==
    /\ tpc[t] = "set_len"
    /\ Goto(t, IF Len(cache) >= max_size THEN "set_pop" ELSE "set_store")
    /\ UNCHANGED <<searchVars, restVars, cacheVars, histVars, callVars, tkey, tdata, tval, tguard>>

\* line 124: self.cache.popitem(last=False)
TSetPop(t) ==
    /\ tpc[t] = "set_pop"
    /\ IF cache # <<>>
       THEN /\ cache' = PopFirst(cache)
            /\ Goto(t, "set_store")
            /\ UNCHANGED <<tdata, tval, tguard>>
       ELSE /\ SetFails(t)
            /\ UNCHANGED cache
    /\ UNCHANGED <<now, lastOp, histVars, callVars, tkey, searchVars, restVars>>

\* line 125 and the return that follows the set
TSetStore(t) ==
    /\ tpc[t] = "set_store"
    /\ cache' = Assign(cache, tkey[t], tval[t], now)
    /\ Leave(t, "idle")
    /\ UNCHANGED <<now, lastOp, histVars, callVars, tkey, searchVars, restVars>>

NextThreads ==
    \/ now < ttl /\ Tick
    \/ \E t \in Threads, key \in Keys : TStart(t, key)
    \/ \E t \in Threads : TGetIn(t)
    \/ \E t \in Threads : TGetRead(t)
    \/ \E t \in Threads : TGetMove(t)
    \/ \E t \in Threads : TGetDel(t)
    \/ \E t \in Threads, out \in Outcomes : TFetch(t, out)
    \/ \E t \in Threads : TSetIn(t)
    \/ \E t \in Threads : TSetMove(t)
    \/ \E t \in Threads : TSetLen(t)
    \/ \E t \in Threads : TSetPop(t)
    \/ \E t \in Threads : TSetStore(t)

\* the fetch tasks of one thread pool sharing API_CACHE
SpecThreads == Init /\ [][NextThreads]_vars

\* ------------------------------------------- search_worms_species_fast
\* results[:n]
Take(seq, n) == IF Len(seq) <= n THEN seq ELSE SubSeq(seq, 1, n)
Ran(seq) == {seq[i] : i \in 1..Len(seq)}
SeqsUpTo(S, n) == UNION {[1..m -> S] : m \in 0..n}
Min(S) == CHOOSE x \in S : \A y \in S : x <= y

\* slice limits of the source
RobustLimit == 8
CommonScan == 8
CommonLimit == 5
FastLimit == 10
CandidateLimit == 3

\* an item of an AphiaRecordsByName answer: AphiaID (0: missing), status,
\* how scientificname compares with the query, and whether
\* get_complete_species_data gives a record for it
RobustItem == [id : Ids \cup {0}, accepted : BOOLEAN,
               match : {"equal", "close", "none"}, enrich : BOOLEAN]
\* an item of an AphiaRecordsByVernacular answer, with the record fetched for it
CommonItem == [id : Ids \cup {0}, record : BOOLEAN, accepted : BOOLEAN,
               marine : BOOLEAN, enrich : BOOLEAN]
\* what search_worms_species_robust returns for a candidate name: nothing, or
\* the record of one AphiaID
ResultLists == {<<>>} \cup {<<id>> : id \in Ids}

\* lines 744-762: the accepted items equal to the query are enriched in turn;
\* the first that gives a record is the result
ExactCalls(items) ==
    LET eq == {i \in 1..Len(items) :
                  items[i].id # 0 /\ items[i].accepted /\ items[i].match = "equal"}
        ok == {i \in eq : items[i].enrich}
    IN {items[i].id : i \in {j \in eq : ok = {} \/ j <= Min(ok)}}
ExactResults(items) ==
    LET ok == {i \in 1..Len(items) :
                  /\ items[i].id # 0 /\ items[i].accepted
                  /\ items[i].match = "equal" /\ items[i].enrich}
    IN IF ok = {} THEN <<>> ELSE <<items[Min(ok)].id>>

\* lines 768-792: every accepted close match is enriched; each record is
\* kept once per AphiaID
RECURSIVE FuzzyLoop(_, _)
FuzzyLoop(items, results) ==
    IF items = <<>> THEN results
    ELSE LET it == Head(items) IN
         FuzzyLoop(Tail(items),
                   IF /\ it.id # 0 /\ it.accepted
                      /\ it.match \in {"equal", "close"} /\ it.enrich
                      /\ it.id \notin Ran(results)
                   THEN Append(results, it.id) ELSE results)
FuzzyResults(items) == Take(FuzzyLoop(items, <<>>), RobustLimit)
FuzzyCalls(items) ==
    {items[i].id : i \in {j \in 1..Len(items) :
        items[j].id # 0 /\ items[j].accepted /\ items[j].match \in {"equal", "close"}}}

\* lines 912-938: accepted marine records are enriched until CommonLimit
\* of them gave a record
RECURSIVE CommonLoop(_, _, _)
CommonLoop(items, results, calls) ==
    IF items = <<>> \/ Len(results) >= CommonLimit
    THEN [results |-> results, calls |-> calls]
    ELSE LET it == Head(items)
             tried == /\ it.id # 0 /\ it.id \notin Ran(results)
                      /\ it.record /\ it.accepted /\ it.marine
         IN CommonLoop(Tail(items),
                       IF tried /\ it.enrich THEN Append(results, it.id) ELSE results,
                       IF tried THEN calls \cup {it.id} ELSE calls)
CommonResults(items) == CommonLoop(Take(items, CommonScan), <<>>, {}).results
CommonCalls(items) == CommonLoop(Take(items, CommonScan), <<>>, {}).calls

\* lines 747-757, 771-786 and 914-929: the conditions under which an item of an
\* answer becomes a result
ExactPass(it) == it.id # 0 /\ it.accepted /\ it.match = "equal" /\ it.enrich
FuzzyPass(it) == it.id # 0 /\ it.accepted /\ it.match \in {"equal", "close"} /\ it.enrich
CommonPass(it) == it.id # 0 /\ it.record /\ it.accepted /\ it.marine /\ it.enrich
\* the status of the registry record behind each result: the first item with
\* the result's AphiaID among those that became a result (passed)
FromOf(items, ids, passed) ==
    [k \in 1..Len(ids) |-> items[Min({j \in passed : items[j].id = ids[k]})].accepted]

\* a loop that goes through every candidate name
SearchedNoLimit(n, res) ==
    LET hits == {i \in 1..n : res[i] # <<>>}
        last == IF hits = {} THEN n ELSE Min(hits)
    IN [names |-> [i \in 1..last |-> i],
        results |-> IF hits = {} THEN <<>> ELSE res[Min(hits)]]
\* lines 874-879 and 973-978: the candidates searched, in order, up to the
\* first whose search gives results; n names, res[i] the result of name i
Searched(n, res) ==
    LET lim == IF n <= CandidateLimit THEN n ELSE CandidateLimit
        hits == {i \in 1..lim : res[i] # <<>>}
        last == IF hits = {} THEN lim ELSE Min(hits)
    IN [names |-> [i \in 1..last |-> i],
        results |-> IF hits = {} THEN <<>> ELSE res[Min(hits)]]

\* the statement reached after each stage
\* a resolver that goes on to the name searches when the AphiaID gave no record
AfterByIdFallingBack(results) == IF results = <<>> THEN "exact" ELSE "done"
\* lines 1004-1008: both branches return
AfterById(results) == "done"
\* line 758-760: an exact hit returns from search_worms_species_robust
AfterExact(results) == IF results # <<>> THEN "return" ELSE "fuzzy"
\* a caller that goes on to the vernacular search whatever the results
AfterRobustAlways(shape, results) == IF shape = "binomial" THEN "done" ELSE "vern"
\* lines 1011-1020
AfterRobust(shape, results) ==
    IF shape = "binomial" THEN "done"
    ELSE IF results = <<>> THEN "vern" ELSE "done"
\* lines 940-945
AfterCommon(results) == IF results # <<>> THEN "done" ELSE "wiki"
\* lines 1023-1024
AfterWikipedia(results) == IF results = <<>> THEN "title" ELSE "done"

Logged(stage) == IF sstages # <<>> /\ sstages[Len(sstages)] = stage
                 THEN sstages ELSE Append(sstages, stage)
Hit(stage, results) == IF shit = 0 /\ results # <<>> THEN stage ELSE shit
OnlySearch == UNCHANGED <<cacheVars, histVars, callVars, threadVars, restVars>>

\* lines 995-1013: the query is cleaned and classified
SearchStart(shape) ==
    /\ spc \in {"idle", "done"}
    /\ sq' = shape
    /\ spc' = CASE shape = "short" -> "done"
                [] shape = "numeric" -> "id"
                [] OTHER -> "exact"
    /\ sresults' = <<>>
    /\ sstages' = <<>>
    /\ shit' = 0
    /\ scands' = <<>>
    /\ scalls' = {}
    /\ scres' = <<>>
    /\ sgot' = {}
    /\ sfrom' = <<>>
    /\ OnlySearch

\* lines 1002-1008: the query is an AphiaID
\* id: int(clean_query), accepted: the status of its registry record, enrich:
\* get_complete_species_data gives a record (never for AphiaID 0, line 1147)
SearchById(id, accepted, enrich) ==
    /\ spc = "id"
    /\ id = 0 => ~enrich
    /\ sresults' = IF enrich THEN <<id>> ELSE <<>>
    /\ scalls' = {id}
    /\ sgot' = IF enrich THEN {id} ELSE {}
    /\ sfrom' = IF enrich THEN <<accepted>> ELSE <<>>
    /\ sstages' = Logged(1)
    /\ shit' = Hit(1, sresults')
    /\ spc' = AfterById(sresults')
    /\ UNCHANGED <<sq, scands, scres>>
    /\ OnlySearch

\* lines 741-762: the exact request of search_worms_species_robust
SearchExact(items) ==
    /\ spc = "exact"
    /\ LET r == ExactResults(items) IN
        /\ sresults' = IF AfterExact(r) = "return" THEN Take(r, FastLimit) ELSE r
        /\ spc' = IF AfterExact(r) = "return" THEN AfterRobust(sq, r) ELSE "fuzzy"
        /\ shit' = Hit(2, r)
        /\ sgot' = Ran(r)
        /\ sfrom' = FromOf(items, sresults', {j \in 1..Len(items) : ExactPass(items[j])})
    /\ scalls' = ExactCalls(items)
    /\ sstages' = Logged(2)
    /\ UNCHANGED <<sq, scands, scres>>
    /\ OnlySearch

\* lines 765-792: the fuzzy request of search_worms_species_robust
SearchFuzzy(items) ==
    /\ spc = "fuzzy"
    /\ LET r == FuzzyResults(items) IN
        /\ sresults' = Take(r, FastLimit)
        /\ spc' = AfterRobust(sq, r)
        /\ shit' = Hit(3, r)
        /\ sgot' = {items[j].id : j \in {i \in 1..Len(items) : FuzzyPass(items[i])}}
        /\ sfrom' = FromOf(items, sresults', {j \in 1..Len(items) : FuzzyPass(items[j])})
    /\ scalls' = FuzzyCalls(items)
    /\ sstages' = Logged(3)
    /\ UNCHANGED <<sq, scands, scres>>
    /\ OnlySearch

\* lines 894-945 up to the hand-over to wikipedia_mediated_search_fast
SearchCommon(items) ==
    /\ spc = "vern"
    /\ LET r == CommonResults(items) IN
        /\ sresults' = Take(r, FastLimit)
        /\ spc' = AfterCommon(r)
        /\ shit' = Hit(4, r)
        /\ sgot' = Ran(r)
        /\ sfrom' = FromOf(items, sresults', {j \in 1..Len(items) : CommonPass(items[j])})
    /\ scalls' = CommonCalls(items)
    /\ sstages' = Logged(4)
    /\ UNCHANGED <<sq, scands, scres>>
    /\ OnlySearch

\* lines 857-886: wikipedia_mediated_search_fast; wiki: the article has a
\* description, n: names extracted from it, res: the search result of each
SearchWikipedia(wiki, n, res) ==
    /\ spc = "wiki"
    /\ LET s == IF wiki THEN Searched(n, res) ELSE [names |-> <<>>, results |-> <<>>] IN
        /\ sresults' = Take(s.results, FastLimit)
        /\ scands' = s.names
        /\ scres' = [i \in 1..Len(s.names) |-> res[s.names[i]]]
        /\ spc' = AfterWikipedia(s.results)
        /\ shit' = Hit(5, s.results)
        /\ scalls' = Ran(s.results)
        /\ sgot' = Ran(s.results)
        /\ sfrom' = [k \in 1..Len(sresults') |-> TRUE]
    /\ sstages' = Logged(5)
    /\ UNCHANGED sq
    /\ OnlySearch

\* lines 951-990: fuzzy_search_common_name_fast; binomial: the article title
\* has the shape of a scientific name and is appended to the candidates,
\* titleRes: the result of the search for the title
SearchTitle(wiki, n, binomial, res, titleRes) ==
    /\ spc = "title"
    /\ LET m == IF binomial THEN n + 1 ELSE n
           s == Searched(m, res)
           r == IF ~wiki THEN <<>>
                ELSE IF s.results # <<>> THEN s.results ELSE titleRes
       IN
        /\ sresults' = Take(r, FastLimit)
        /\ scands' = IF ~wiki THEN <<>>
                     ELSE IF s.results # <<>> THEN s.names ELSE Append(s.names, 0)
        /\ scres' = [i \in 1..Len(scands') |->
                        IF scands'[i] = 0 THEN titleRes ELSE res[scands'[i]]]
        /\ shit' = Hit(6, r)
        /\ scalls' = Ran(r)
        /\ sgot' = Ran(r)
        /\ sfrom' = [k \in 1..Len(sresults') |-> TRUE]
    /\ spc' = "done"
    /\ sstages' = Logged(6)
    /\ UNCHANGED sq
    /\ OnlySearch

NextSearch ==
    \/ \E shape \in {"short", "numeric", "binomial", "text"} : SearchStart(shape)
    \/ \E id \in Ids \cup {0}, accepted \in BOOLEAN, enrich \in BOOLEAN :
          SearchById(id, accepted, enrich)
    \/ \E items \in SeqsUpTo(RobustItem, MaxItems) : SearchExact(items)
    \/ \E items \in SeqsUpTo(RobustItem, MaxItems) : SearchFuzzy(items)
    \/ \E items \in SeqsUpTo(CommonItem, MaxItems) : SearchCommon(items)
    \/ \E wiki \in BOOLEAN, n \in 0..MaxNames, res \in [1..MaxNames -> ResultLists] :
          SearchWikipedia(wiki, n, res)
    \/ \E wiki \in BOOLEAN, n \in 0..MaxNames, binomial \in BOOLEAN,
          res \in [1..(MaxNames + 1) -> ResultLists], titleRes \in ResultLists :
          SearchTitle(wiki, n, binomial, res, titleRes)

\* one search after another, against an arbitrary registry and encyclopedia
SpecSearch == Init /\ [][NextSearch]_vars

\* ------------------------------------ get_complete_species_data_parallel
\* lines 1193-1198: the order of the futures dict
TaskOrder == <<"classification", "distribution", "obis", "wiki">>
NumTasks == Len(TaskOrder)
\* what api_request_with_cache gets from the upstream: a body with usable
\* content, a body without (no page, an empty list, no occurrences), or None
Answers == {"data", "hollow", "neg"}
\* the base record: not fetched, without names, with scientificname, or
\* with valid_name only
BaseKinds == {"absent", "nameless", "sci", "valid"}
\* pic: the record has a picture_url; dist: the record has a distribution
\* text; ans: the answer to each closure's request and to the image list request
Upstreams == [base : BaseKinds, pic : BOOLEAN, dist : BOOLEAN,
              ans : [Tasks \cup {"images"} -> {"data", "neg"}]]

\* a base record that passes the name test although it has no name
UsableIfFetched(base) == base # "absent"
\* lines 1152-1156
Usable(base) == base \in {"sci", "valid"}

\* what the upstream answers to each request
Answer(up, k) ==
    CASE k = "record" -> IF up.base = "absent" THEN "neg" ELSE "data"
      [] k = "picture" -> IF up.base = "absent" THEN "neg"
                          ELSE IF up.pic THEN "data" ELSE "hollow"
      [] OTHER -> up.ans[k]
\* line 569: a cached value that is not None is returned without a request
Served(c, k) == c[k] # "neg"
\* lines 568-659: api_request_with_cache for lookup k; c maps each lookup to
\* the cached value ("neg": nothing, or a stored None)
Request(c, net, up, k) ==
    IF Served(c, k) THEN [cache |-> c, net |-> net, ret |-> c[k]]
    ELSE [cache |-> [c EXCEPT ![k] = Answer(up, k)],
          net |-> net \cup {k}, ret |-> Answer(up, k)]

\* line 1202: future.result(timeout=10) of a task in the given state
FutureResult(status) ==
    CASE status = "running" -> "timeout"
      [] status = "raised" -> "raise"
      [] OTHER -> status
\* an await that lets the exception of the task or of the timeout through
AwaitedUncaught(status) == FutureResult(status)
\* lines 1201-1204: the bare except stores None
Awaited(status) ==
    IF FutureResult(status) \in {"timeout", "raise"} THEN "neg" ELSE FutureResult(status)

\* a loop that stops after the first future
AllAwaitedEarly(i) == i > 1
\* lines 1200-1204: the for loop has gone through every future
AllAwaited(i) == i > NumTasks

\* lines 1033-1086: the WoRMS image, from the image list or else from the
\* picture_url of the record
WormsImage(c, net, up) ==
    LET a == Request(c, net, up, "images")
        b == Request(a.cache, a.net, up, "picture")
    IN IF a.ret = "data" THEN [cache |-> a.cache, net |-> a.net, url |-> TRUE]
       ELSE [cache |-> b.cache, net |-> b.net, url |-> b.ret = "data"]

\* lines 1584-1603, 1470-1510, 1512-1545, 1547-1582, 1292-1326, 1328-1340:
\* the fields of the record from results and the WoRMS image
extract_taxonomy_fast(res) == IF res["classification"] = "data" THEN "tree" ELSE "empty"
extract_distribution_fast(res, up) ==
    IF res["distribution"] = "data" \/ res["obis"] = "data" \/ up.dist
    THEN "localities" ELSE "Global distribution"
extract_ocean_basins_fast(res) ==
    IF res["obis"] = "data" THEN "basins" ELSE "Multiple ocean basins"
extract_occurrence_stats_fast(res) == IF res["obis"] = "data" THEN "counted" ELSE "zeroed"
create_description_fast(res) == IF res["wiki"] = "data" THEN "article" ELSE "template"
determine_image_source_fast(url, res) ==
    IF url THEN "WoRMS" ELSE IF res["wiki"] = "data" THEN "Wikipedia" ELSE None
Assembled(res, up, url) ==
    [taxonomy |-> extract_taxonomy_fast(res),
     distribution |-> extract_distribution_fast(res, up),
     ocean_basins |-> extract_ocean_basins_fast(res),
     occurrence_stats |-> extract_occurrence_stats_fast(res),
     extract |-> create_description_fast(res),
     image_source |-> determine_image_source_fast(url, res)]

NoFutures == [k \in Tasks |-> "unstarted"]
NoResults == [k \in Tasks |-> "unset"]
OnlyEnrich == UNCHANGED <<cacheVars, histVars, callVars, threadVars, searchVars, browseVars, uiVars, textVars>>

\* lines 1144-1198: the call, up to the submission of the four closures.
\* fresh: an AphiaID nothing is cached for; otherwise the call repeats the
\* last one (same AphiaID and search term, same upstream)
EnrichCall(fresh, id, up) ==
    /\ IF fresh THEN epc = "idle" /\ ecalls' = 1
       ELSE epc = "done" /\ ecalls < MaxCalls /\ ecalls' = ecalls + 1
    /\ eid' = IF fresh THEN id ELSE eid
    /\ eup' = IF fresh THEN up ELSE eup
    /\ eprev' = IF fresh THEN <<>> ELSE erecord
    /\ egave' = {}
    /\ eresults' = NoResults
    /\ eidx' = 1
    /\ erecord' = <<>>
    /\ LET c == IF fresh THEN [k \in Lookups |-> "neg"] ELSE ecache
           r == Request(c, {}, eup', "record")
       IN IF eid' = 0
          THEN /\ ecache' = c
               /\ enet' = {}
               /\ efutures' = NoFutures
               /\ epc' = "done"
          ELSE /\ ecache' = r.cache
               /\ enet' = r.net
               /\ efutures' = IF Usable(eup'.base) THEN [k \in Tasks |-> "running"]
                              ELSE NoFutures
               /\ epc' = IF Usable(eup'.base) THEN "await" ELSE "done"
    /\ OnlyEnrich

\* lines 1164-1189: a closure runs to its end in a pool thread; raised: an
\* exception escapes from it
TaskFinish(k, raised) ==
    /\ epc \in {"await", "exit"}
    /\ efutures[k] = "running"
    /\ LET r == Request(ecache, enet, eup, k)
           skip == k = "obis" /\ eup.base = "valid"
       IN IF raised \/ skip
          THEN /\ efutures' = [efutures EXCEPT ![k] = IF raised THEN "raised" ELSE "neg"]
               /\ UNCHANGED <<ecache, enet>>
          ELSE /\ efutures' = [efutures EXCEPT ![k] = r.ret]
               /\ ecache' = r.cache
               /\ enet' = r.net
    /\ UNCHANGED <<epc, eid, eup, ecalls, eidx, eresults, egave, erecord, eprev>>
    /\ OnlyEnrich

\* lines 1200-1204: one turn of the loop over the futures
Await ==
    /\ epc = "await"
    /\ LET k == TaskOrder[eidx]
           v == Awaited(efutures[k])
       IN IF v \in {"timeout", "raise"}
          THEN \* lines 1257-1259: the exception ends the call
               /\ epc' = "done"
               /\ UNCHANGED <<eresults, eidx, egave>>
          ELSE /\ eresults' = [eresults EXCEPT ![k] = v]
               /\ egave' = IF efutures[k] = "running" THEN egave \cup {k} ELSE egave
               /\ eidx' = eidx + 1
               /\ epc' = IF AllAwaited(eidx') THEN "exit" ELSE "await"
    /\ UNCHANGED <<eid, eup, ecalls, ecache, enet, efutures, erecord, eprev>>
    /\ OnlyEnrich

\* line 1192: leaving the with block waits for every pool thread;
\* lines 1206-1256: the image lookup, the extraction and the return
Assemble ==
    /\ epc = "exit"
    /\ \A k \in Tasks : efutures[k] # "running"
    /\ LET img == WormsImage(ecache, enet, eup) IN
        /\ ecache' = img.cache
        /\ enet' = img.net
        /\ erecord' = <<Assembled(eresults, eup, img.url)>>
    /\ epc' = "done"
    /\ UNCHANGED <<eid, eup, ecalls, efutures, eidx, eresults, egave, eprev>>
    /\ OnlyEnrich

NextEnrich ==
    \/ epc = "idle" /\ \E id \in {0, 1}, up \in Upstreams : EnrichCall(TRUE, id, up)
    \/ \E k \in Tasks, raised \in BOOLEAN : TaskFinish(k, raised)
    \/ Await
    \/ Assemble

\* one enrichment, against an arbitrary upstream
SpecEnrich == Init /\ [][NextEnrich]_vars

NextRepeat ==
    \/ epc = "idle" /\ \E up \in {u \in Upstreams : u.base = "sci"} : EnrichCall(TRUE, 1, up)
    \/ EnrichCall(FALSE, eid, eup)
    \/ \E k \in Tasks : TaskFinish(k, FALSE)
    \/ Await
    \/ Assemble

\* the enrichment of one AphiaID called up to MaxCalls times in a row, the
\* upstream answering the same each time and no closure raising
SpecRepeat == Init /\ [][NextRepeat]_vars

\* ------------------------------------------- browse_marine_animals_fast
\* what search_worms_species_fast returns for each search term
Catalogs == [Seeds -> SeqsUpTo(Ids, MaxItems)]
Species(catalog) == UNION {Ran(catalog[s]) : s \in Seeds}

\* a loop that takes every record, seen or not
SkippedNever(aphia_id, seen) == FALSE
\* line 1732: a record whose AphiaID was seen is skipped
Skipped(aphia_id, seen) == aphia_id \in seen

\* an append that does not wait for the offset
ReachedAlways(species, offset) == TRUE
\* line 1736: only add if we've reached the offset
Reached(species, offset) == Len(species) >= offset

\* lines 1728-1742: the loop over the results of one search term
RECURSIVE Collect(_, _, _, _, _)
Collect(search_results, species, seen, offset, limit) ==
    IF search_results = <<>> THEN [species |-> species, seen |-> seen]
    ELSE LET aphia_id == Head(search_results)
             add == Reached(species, offset)
             sp == IF add THEN Append(species, aphia_id) ELSE species
             sn == IF add THEN seen \cup {aphia_id} ELSE seen
         IN IF Skipped(aphia_id, seen)
            THEN Collect(Tail(search_results), species, seen, offset, limit)
            ELSE IF Len(sp) >= offset + limit
                 THEN [species |-> sp, seen |-> sn]
                 ELSE Collect(Tail(search_results), sp, sn, offset, limit)

\* lines 1753-1755: marine_species[start_idx:end_idx]
Slice(species, offset, limit) ==
    LET start_idx == IF offset <= Len(species) THEN offset ELSE Len(species)
        end_idx == IF offset + limit <= Len(species) THEN offset + limit ELSE Len(species)
    IN IF end_idx <= start_idx THEN <<>> ELSE SubSeq(species, start_idx + 1, end_idx)

OnlyBrowse == UNCHANGED <<cacheVars, histVars, callVars, threadVars, searchVars, enrichVars, uiVars, textVars>>

\* lines 1693-1718: the call; the shuffle is the order in which BrowseTerm
\* takes the terms
BrowseStart(offset, limit, catalog) ==
    /\ bpc \in {"idle", "done"}
    /\ boffset' = offset
    /\ blimit' = limit
    /\ bcatalog' = catalog
    /\ bterms' = Seeds
    /\ marine_species' = <<>>
    /\ seen_aphia_ids' = {}
    /\ breturn' = <<>>
    /\ bpc' = "loop"
    /\ OnlyBrowse

\* lines 1720-1748: one turn of the loop over all_search_terms
BrowseTerm(search_term) ==
    /\ bpc = "loop"
    /\ search_term \in bterms
    /\ Len(marine_species) < boffset + blimit
    /\ LET r == Collect(bcatalog[search_term], marine_species, seen_aphia_ids,
                        boffset, blimit) IN
        /\ marine_species' = r.species
        /\ seen_aphia_ids' = r.seen
    /\ bterms' = bterms \ {search_term}
    /\ UNCHANGED <<bpc, boffset, blimit, bcatalog, breturn>>
    /\ OnlyBrowse

\* lines 1721-1722 and 1750-1755: the loop ends and the slice is returned
BrowseReturn ==
    /\ bpc = "loop"
    /\ bterms = {} \/ Len(marine_species) >= boffset + blimit
    /\ breturn' = Slice(marine_species, boffset, blimit)
    /\ bpc' = "done"
    /\ UNCHANGED <<boffset, blimit, bcatalog, bterms, marine_species, seen_aphia_ids>>
    /\ OnlyBrowse

NextBrowse ==
    \/ \E offset \in 0..MaxOffset, limit \in 1..MaxLimit, catalog \in Catalogs :
          BrowseStart(offset, limit, catalog)
    \/ \E search_term \in Seeds : BrowseTerm(search_term)
    \/ BrowseReturn

\* one browse call after another, over arbitrary search results
SpecBrowse == Init /\ [][NextBrowse]_vars

\* ------------------------------------- MainWindow and MarineSearchThread
BROWSE_LIMIT_INITIAL == 20
BROWSE_LIMIT_INCREMENT == 5

\* lines 1771-1780, 1785-1817: how many records a thread can emit: a search
\* has at most FastLimit, a browse at most its limit and none past offset 0
\* (nothing is appended while len(marine_species) < offset, lines 1736-1738)
Emits(t) ==
    IF ~t.browse_mode THEN {0, 1, FastLimit}
    ELSE IF t.browse_offset > 0 THEN {0}
    ELSE {0, 1, t.browse_limit}

OnlyUi == UNCHANGED <<cacheVars, histVars, callVars, threadVars, searchVars, enrichVars, browseVars, textVars>>

\* starting a MarineSearchThread: lines 2770-2774, 2782-2790, 2799-2807
Started(slot, mode, offset, limit) ==
    /\ uissued < MaxQueries
    /\ uissued' = uissued + 1
    /\ uthreads' = uthreads \cup {[q |-> uissued', slot |-> slot, browse_mode |-> mode,
                                  browse_offset |-> offset, browse_limit |-> limit]}

\* lines 2758-2774, for a query that is not empty
on_search ==
    /\ is_browsing' = FALSE
    /\ browse_offset' = 0
    /\ browse_more_btn' = FALSE
    /\ Started("handle_search_results", FALSE, 0, BROWSE_LIMIT_INITIAL)
    /\ UNCHANGED <<uqueue, current_search_results>>
    /\ OnlyUi

\* lines 2776-2790
on_browse_all ==
    /\ is_browsing' = TRUE
    /\ browse_offset' = 0
    /\ Started("handle_search_results", TRUE, browse_offset', BROWSE_LIMIT_INITIAL)
    /\ UNCHANGED <<uqueue, current_search_results, browse_more_btn>>
    /\ OnlyUi

\* an offset that advances by the size of the first page
AdvancedByInitial(offset) == offset + BROWSE_LIMIT_INITIAL
\* line 2797: self.browse_offset += BROWSE_LIMIT_INCREMENT
Advanced(offset) == offset + BROWSE_LIMIT_INCREMENT

\* lines 2792-2807: a click on the visible Browse More button
on_browse_more ==
    /\ browse_more_btn
    /\ is_browsing
    /\ browse_offset' = Advanced(browse_offset)
    /\ Started("handle_browse_more_results", TRUE, browse_offset', BROWSE_LIMIT_INCREMENT)
    /\ UNCHANGED <<uqueue, current_search_results, is_browsing, browse_more_btn>>
    /\ OnlyUi

\* lines 1771-1783: run() ends and emits finished with n records; the signal
\* is queued for the GUI thread
ThreadRun(t, n) ==
    /\ t \in uthreads
    /\ n \in Emits(t)
    /\ uthreads' = uthreads \ {t}
    /\ uqueue' = Append(uqueue, [q |-> t.q, slot |-> t.slot, n |-> n])
    /\ UNCHANGED <<uissued, current_search_results, is_browsing, browse_offset, browse_more_btn>>
    /\ OnlyUi

\* the records of one finished signal as they are shown; late: a newer
\* thread had been started when they were delivered
Shown(sig) == [q |-> sig.q, n |-> sig.n, late |-> sig.q # uissued]

\* lines 2809-2840: the list is replaced by the results
handle_search_results ==
    /\ uqueue # <<>>
    /\ Head(uqueue).slot = "handle_search_results"
    /\ uqueue' = Tail(uqueue)
    /\ current_search_results' = IF Head(uqueue).n > 0 THEN <<Shown(Head(uqueue))>> ELSE <<>>
    /\ browse_more_btn' = (is_browsing /\ Head(uqueue).n >= BROWSE_LIMIT_INITIAL)
    /\ UNCHANGED <<uissued, uthreads, is_browsing, browse_offset>>
    /\ OnlyUi

\* lines 2842-2864: the results are appended to the list
handle_browse_more_results ==
    /\ uqueue # <<>>
    /\ Head(uqueue).slot = "handle_browse_more_results"
    /\ uqueue' = Tail(uqueue)
    /\ IF Head(uqueue).n = 0
       THEN UNCHANGED <<current_search_results, browse_more_btn>>
       ELSE /\ current_search_results' = Append(current_search_results, Shown(Head(uqueue)))
            /\ browse_more_btn' = (Head(uqueue).n >= BROWSE_LIMIT_INCREMENT)
    /\ UNCHANGED <<uissued, uthreads, is_browsing, browse_offset>>
    /\ OnlyUi

NextUi ==
    \/ on_search
    \/ on_browse_all
    \/ on_browse_more
    \/ \E t \in uthreads, n \in 0..BROWSE_LIMIT_INITIAL : ThreadRun(t, n)
    \/ handle_search_results
    \/ handle_browse_more_results

\* the user's clicks and the threads they start, up to MaxQueries threads
SpecUi == Init /\ [][NextUi]_vars

\* ------------------------------------------------ extract_ocean_basins_fast
\* the coordinates an occurrence may carry (degrees); <<>> is a missing one
Lats == {-10, 0, 10}
Lons == {-180, -120, -100, -40, -30, 0, 30, 60, 100, 120, 180}
Occurrences ==
    [decimalLatitude : {<<>>} \cup {<<v>> : v \in Lats},
     decimalLongitude : {<<>>} \cup {<<v>> : v \in Lons}]

OccurrenceScan == 20
BasinLimit == 3
NamedBasins ==
    {"North Atlantic", "South Atlantic", "Tropical Atlantic", "North Pacific",
     "South Pacific", "Eastern Pacific", "Indian Ocean"}

\* a classification that tests the far west before the Atlantic
BasinWestFirst(lat, lon) ==
    IF lon < -100 THEN {"Eastern Pacific"}
    ELSE IF lon < -30 THEN {IF lat > 0 THEN "North Atlantic" ELSE "South Atlantic"}
    ELSE IF -30 <= lon /\ lon <= 30 THEN {"Tropical Atlantic"}
    ELSE IF lon > 100 /\ lon < 180 THEN {IF lat > 0 THEN "North Pacific" ELSE "South Pacific"}
    ELSE IF 30 < lon /\ lon < 100 THEN {"Indian Ocean"}
    ELSE {}

\* lines 1524-1541: the basins one pair of coordinates adds to the set
Basin(lat, lon) ==
    IF lon < -30 THEN {IF lat > 0 THEN "North Atlantic" ELSE "South Atlantic"}
    ELSE IF -30 <= lon /\ lon <= 30 THEN {"Tropical Atlantic"}
    ELSE IF lon > 100 /\ lon < 180 THEN {IF lat > 0 THEN "North Pacific" ELSE "South Pacific"}
    ELSE IF lon < -100 THEN {"Eastern Pacific"}
    ELSE IF 30 < lon /\ lon < 100 THEN {"Indian Ocean"}
    ELSE {}

\* lines 1520-1523: both coordinates are there
Located(occurrence) ==
    occurrence.decimalLatitude # <<>> /\ occurrence.decimalLongitude # <<>>

\* lines 1519-1541: the loop over results[:20]
RECURSIVE BasinLoop(_)
BasinLoop(occs) ==
    IF occs = <<>> THEN {}
    ELSE LET occurrence == Head(occs) IN
         (IF Located(occurrence)
          THEN Basin(occurrence.decimalLatitude[1], occurrence.decimalLongitude[1])
          ELSE {}) \cup BasinLoop(Tail(occs))

\* line 1545: list(basins)[:3], in any order the set may be listed in, or
\* the default
BasinLists(found) ==
    IF found = {} THEN {<<"Multiple ocean basins">>}
    ELSE {Take(l, BasinLimit) :
            l \in {o \in [1..Cardinality(found) -> found] :
                     \A i, j \in 1..Cardinality(found) : i # j => o[i] # o[j]}}

OnlyBasins == UNCHANGED <<cacheVars, histVars, callVars, threadVars, searchVars, enrichVars, browseVars, uiVars, nameVars>>

\* one more occurrence in the answer of OBIS
AddOccurrence(occurrence) ==
    /\ opc = "idle"
    /\ Len(occ_results) < MaxOcc
    /\ occ_results' = Append(occ_results, occurrence)
    /\ UNCHANGED <<opc, basins, oreturn>>
    /\ OnlyBasins

\* lines 1512-1545; obis_data that is None or has no 'occurrences' dict is
\* the call with no results (lines 1515-1521)
ExtractBasins ==
    /\ opc = "idle"
    /\ basins' = BasinLoop(Take(occ_results, OccurrenceScan))
    /\ oreturn' \in BasinLists(basins')
    /\ opc' = "done"
    /\ UNCHANGED occ_results
    /\ OnlyBasins

NextBasins ==
    \/ \E occurrence \in Occurrences : AddOccurrence(occurrence)
    \/ ExtractBasins

\* one call of extract_ocean_basins_fast on an answer of up to MaxOcc occurrences
SpecBasins == Init /\ [][NextBasins]_vars

\* --------------------------------- extract_scientific_names_from_text_fast
\* A text is a sequence of tokens: words, an abbreviation (a capital letter
\* and a period), "(" and ")". Words are separated by one space; "(" is
\* written against the token after it and ")" against the token before it.
\* A string of letters is [cap, w]: w its letters in lower case, cap whether
\* the first one is a capital.
Word(cap, w) == [k |-> "word", cap |-> cap, w |-> w]
Abbr(w) == [k |-> "abbr", cap |-> TRUE, w |-> w]
Open == [k |-> "open", cap |-> FALSE, w |-> "("]
Close == [k |-> "close", cap |-> FALSE, w |-> ")"]
Tokens ==
    {Word(TRUE, w) : w \in {"some", "sharks", "orcinus", "bony"}}
    \cup {Word(FALSE, w) : w \in {"orca", "are", "sources", "species", "fish"}}
    \cup {Abbr("o"), Open, Close}

\* line 137
RankWords == {"species", "genus", "family", "order", "class"}
\* lines 149-156
COMMON_FALSE_POSITIVES ==
    {"sharks are", "modern sharks", "some sources", "the earliest",
     "jurassic around", "sharks range", "fish are", "most fish",
     "many fish", "the study", "there are", "the first",
     "age of", "bony fish", "fish have", "commercial and",
     "turtles are", "many turtles", "sea turtles", "turtles have",
     "some terrestrial", "turtle habitats"}
\* lines 158-162
COMMON_WORDS ==
    {"are", "and", "the", "for", "with", "from", "that", "which",
     "have", "has", "had", "can", "may", "might", "will", "would",
     "could", "should", "must", "shall"}
\* lines 807-809
RejectFirst ==
    {"sharks", "turtles", "fish", "whales", "dolphins",
     "modern", "some", "the", "their", "these", "those",
     "many", "most", "all", "few", "several"}
\* line 841
RejectGenus == {"sharks", "fish", "turtles", "whales", "dolphins"}

Letters(t) == [cap |-> t.cap, w |-> t.w]
\* [A-Z][a-z]+
IsGenusWord(t) == t.k = "word" /\ t.cap /\ Len(t.w) >= 2
\* [a-z]{2,}
IsSpeciesWord(t) == t.k = "word" /\ ~t.cap /\ Len(t.w) >= 2

\* lines 134-139: the match of pattern p that starts at token i, <<>> if
\* there is none; tuple: the pattern has two groups (findall gives a tuple),
\* else one group (findall gives a string); width: the tokens it covers
MatchAt(txt, p, i) ==
    IF p = 1 THEN
        IF i + 1 <= Len(txt) /\ IsGenusWord(txt[i]) /\ IsSpeciesWord(txt[i + 1])
        THEN <<[tuple |-> TRUE, parts |-> <<Letters(txt[i]), Letters(txt[i + 1])>>, width |-> 2]>>
        ELSE <<>>
    ELSE IF p = 2 THEN
        IF /\ i + 3 <= Len(txt)
           /\ txt[i].k = "open" /\ IsGenusWord(txt[i + 1])
           /\ IsSpeciesWord(txt[i + 2]) /\ txt[i + 3].k = "close"
        THEN <<[tuple |-> FALSE, parts |-> <<Letters(txt[i + 1]), Letters(txt[i + 2])>>, width |-> 4]>>
        ELSE <<>>
    ELSE IF p = 3 THEN
        IF /\ i + 2 <= Len(txt)
           /\ txt[i].k = "word" /\ ~txt[i].cap /\ txt[i].w \in RankWords
           /\ IsGenusWord(txt[i + 1]) /\ IsSpeciesWord(txt[i + 2])
        THEN <<[tuple |-> FALSE, parts |-> <<Letters(txt[i + 1]), Letters(txt[i + 2])>>, width |-> 3]>>
        ELSE <<>>
    ELSE
        IF i + 1 <= Len(txt) /\ txt[i].k = "abbr" /\ IsSpeciesWord(txt[i + 1])
        THEN <<[tuple |-> TRUE, parts |-> <<Letters(txt[i]), Letters(txt[i + 1])>>, width |-> 2]>>
        ELSE <<>>

\* line 803: pattern.findall(text), the matches from left to right, each
\* search starting where the match before ended
RECURSIVE FindAll(_, _, _)
FindAll(txt, p, i) ==
    IF i > Len(txt) THEN <<>>
    ELSE LET m == MatchAt(txt, p, i) IN
         IF m = <<>> THEN FindAll(txt, p, i + 1)
         ELSE m \o FindAll(txt, p, i + m[1].width)

\* lines 804-826: what one match adds to scientific_names; a name is the
\* pair of its genus and its species, written with one space between them
AddMatch(found, m) ==
    LET genus == m.parts[1]
        species == m.parts[2]
    IN IF m.tuple
       THEN IF genus.w \in RejectFirst THEN found
            ELSE IF species.w \in COMMON_WORDS THEN found
            ELSE IF genus.cap /\ ~species.cap /\ m.parts \notin Ran(found)
                 THEN Append(found, m.parts) ELSE found
       ELSE IF genus.cap /\ ~species.cap /\ m.parts \notin Ran(found)
            THEN Append(found, m.parts) ELSE found

RECURSIVE AddMatches(_, _)
AddMatches(found, ms) ==
    IF ms = <<>> THEN found ELSE AddMatches(AddMatch(found, Head(ms)), Tail(ms))

\* lines 802-826: the loop over the four patterns
RECURSIVE Candidates(_, _, _)
Candidates(txt, p, found) ==
    IF p > 4 THEN found
    ELSE Candidates(txt, p + 1, AddMatches(found, FindAll(txt, p, 1)))

\* name.lower()
NameLower(name) == name[1].w \o " " \o name[2].w

\* a final filter that accepts a genus of any length
KeptAnyLength(name) ==
    /\ NameLower(name) \notin COMMON_FALSE_POSITIVES
    /\ name[1].cap
    /\ ~name[2].cap /\ Len(name[2].w) > 1
    /\ name[1].w \notin RejectGenus
    /\ name[2].w \notin COMMON_WORDS

\* lines 831-844: the names the final filter keeps
Kept(name) ==
    /\ NameLower(name) \notin COMMON_FALSE_POSITIVES
    /\ name[1].cap /\ Len(name[1].w) > 1
    /\ ~name[2].cap /\ Len(name[2].w) > 1
    /\ name[1].w \notin RejectGenus
    /\ name[2].w \notin COMMON_WORDS

\* lines 847-853: duplicates removed, the order kept
RECURSIVE Unique(_, _)
Unique(found, seen) ==
    IF found = <<>> THEN <<>>
    ELSE IF Head(found) \in seen THEN Unique(Tail(found), seen)
    ELSE <<Head(found)>> \o Unique(Tail(found), seen \cup {Head(found)})

OnlyNames == UNCHANGED <<cacheVars, histVars, callVars, threadVars, searchVars, enrichVars, browseVars, uiVars, basinVars>>

\* one more token in the text
AddToken(tok) ==
    /\ npc = "idle"
    /\ Len(ntext) < MaxTokens
    /\ ntext' = Append(ntext, tok)
    /\ UNCHANGED <<npc, scientific_names, unique_names>>
    /\ OnlyNames

\* lines 794-855
ExtractNames ==
    /\ npc = "idle"
    /\ scientific_names' = Candidates(ntext, 1, <<>>)
    /\ unique_names' = Unique(SelectSeq(scientific_names', Kept), {})
    /\ npc' = "done"
    /\ UNCHANGED ntext
    /\ OnlyNames

NextNames ==
    \/ \E tok \in Tokens : AddToken(tok)
    \/ ExtractNames

\* one call of extract_scientific_names_from_text_fast on a text of up to
\* MaxTokens tokens
SpecNames == Init /\ [][NextNames]_vars

\* ================================================= the cache, one call at a time

\* C2: a get issued less than ttl after the most recent set of its key (not
\* evicted since) returns the value set; a get issued ttl or more after it
\* returns absent and the entry is gone from the cache, however many
\* successful gets hit the entry in between.
C2_GetWithinTtlOfSet ==
    (lastOp.op = "get" /\ lastSet[lastOp.key].t >= 0) =>
        IF now - lastSet[lastOp.key].t < ttl
        THEN lastOp.ret = lastSet[lastOp.key].v
        ELSE lastOp.ret = None /\ ~Has(cache, lastOp.key)

\* an entry that was set, read successfully, and then read again ttl after the set
C2_Witness ==
    /\ lastOp.op = "get"
    /\ lastSet[lastOp.key].t >= 0
    /\ lastSet[lastOp.key].v \in Payloads
    /\ lastSet[lastOp.key].read
    /\ now - lastSet[lastOp.key].t >= ttl
    /\ lastOp.ret = None

\* C3: a set of a key that is not cached, on a cache holding max_size entries,
\* evicts exactly one entry, the one whose last successful get or set is the
\* oldest; a key hit by the get that ran just before is not the one evicted
\* (max_size >= 2).
C3_EvictsLeastRecentlyUsed ==
    [][(lastOp'.op = "set" /\ ~Has(cache, lastOp'.key) /\ Len(cache) >= max_size) =>
         /\ \E e \in KeysOf(cache) :
               /\ KeysOf(cache') = (KeysOf(cache) \ {e}) \cup {lastOp'.key}
               /\ Len(cache') = Len(cache)
               /\ \A o \in KeysOf(cache) : stamp[e] <= stamp[o]
         /\ (max_size >= 2 /\ lastOp.op = "get" /\ lastOp.hit) => Has(cache', lastOp.key)
      ]_vars

\* a set that evicted an entry right after a successful get of the oldest-inserted key
C3_Witness ==
    /\ lastOp.op = "set"
    /\ lastOp.full /\ ~lastOp.present
    /\ lastOp.evicted # {}
    /\ lastOp.prevHit
    /\ Len(cache) = max_size

\* C4: the cache never holds more than max_size entries nor two entries for
\* one key; a set of a key already present stores the new value and timestamp
\* and evicts nothing, even when the cache is full.
C4_BoundedOneEntryPerKey ==
    /\ Len(cache) <= max_size
    /\ Cardinality(KeysOf(cache)) = Len(cache)
    /\ (lastOp.op = "set" /\ lastOp.present) =>
          /\ lastOp.evicted = {}
          /\ Entry(cache, lastOp.key).v = lastOp.value
          /\ Entry(cache, lastOp.key).t = now

\* a set of a key already present in a full cache
C4_Witness ==
    /\ lastOp.op = "set"
    /\ lastOp.present /\ lastOp.full
    /\ Len(cache) = max_size
    /\ Entry(cache, lastOp.key).t > 0

\* ================================================= api_request_with_cache, one call at a time

\* C1: a call whose key got a definitive negative less than ttl ago, the entry
\* not evicted since, returns absent without any network request.
C1_NegativeServedFromCache ==
    startNeg => (pc = "idle" /\ netCalls = 0 /\ result = None)

\* C7: a call makes at most retries + 1 network attempts; a timeout or
\* transport error on an attempt that is not the last is followed by another
\* attempt, and on the last attempt absence is cached and returned.
C7_AtMostRetriesPlusOneAttempts ==
    /\ netCalls <= retries + 1
    /\ (pc = "attempt") => (attempt = netCalls /\ attempt <= retries)
    /\ (outcomes # <<>> /\ outcomes[Len(outcomes)] \in {"timeout", "error"}) =>
          IF Len(outcomes) <= retries
          THEN pc = "attempt"
          ELSE /\ pc = "idle"
               /\ result = None
               /\ storedNone
               /\ Has(cache, reqKey) /\ Entry(cache, reqKey).v = None

\* a call with the largest budget whose every attempt timed out
C7_Witness ==
    /\ pc = "idle"
    /\ retries = MaxRetries
    /\ netCalls = retries + 1
    /\ \A i \in 1..Len(outcomes) : outcomes[i] = "timeout"
    /\ result = None

\* C8: a 404 or an empty successful body ends the call at once: absence is
\* cached and returned with no wait after it, and when it answers the first
\* attempt the call made exactly one network attempt.
C8_NegativeIsNotRetried ==
    (outcomes # <<>> /\ outcomes[Len(outcomes)] \in {"s404", "empty"}) =>
        /\ pc = "idle"
        /\ result = None
        /\ storedNone
        /\ Has(cache, reqKey) /\ Entry(cache, reqKey).v = None
        /\ Len(sleeps) = Len(outcomes) - 1
        /\ (outcomes[1] \in {"s404", "empty"}) => (netCalls = 1 /\ sleeps = <<>>)

\* a call with retries to spare whose first response was a 404
C8_Witness ==
    /\ pc = "idle"
    /\ retries >= 1
    /\ outcomes = <<"s404">>
    /\ result = None

\* C9: 429 on the first attempt and a parseable 200 on the second: the call
\* returns the payload, the cache holds the payload under the key, and absence
\* was never stored during the call.
C9_SuccessAfter429 ==
    /\ (outcomes = <<"s429", "json">>) =>
          /\ pc = "idle"
          /\ result = Body
          /\ Has(cache, reqKey) /\ Entry(cache, reqKey).v = Body
          /\ ~storedNone
    /\ (outcomes = <<"s429">> /\ retries >= 1) => (pc = "attempt" /\ ~storedNone)

\* the call that got 429 and then the payload
C9_Witness ==
    /\ outcomes = <<"s429", "json">>
    /\ pc = "idle"
    /\ sleeps = <<2000>>

\* ================================================= API_CACHE shared by the pool threads

\* C5: get and set of concurrent fetch tasks are atomic with respect to each
\* other: the cache never holds more than max_size entries and no get fails
\* on an entry another task removed under it.
C5_CacheCallsAreAtomic ==
    /\ Len(cache) <= max_size
    /\ \A t \in Threads : tpc[t] # "raised_get"

\* C6: api_request_with_cache never raises to its caller.
C6_NeverRaises ==
    \A t \in Threads : tpc[t] \notin {"raised_get", "raised_set"}

\* ================================================= the resolution chain

\* C10: the stages issue their requests one after another in the order
\* numeric id (1), exact (2), fuzzy (3), vernacular (4), encyclopedic (5),
\* article title (6): a stage runs only when every stage before it has ended
\* without a record, and once a stage has a record no later stage runs.
C10_StagesInOrderStopAtFirstHit ==
    /\ sstages # <<>> => sstages[1] = (IF sq = "numeric" THEN 1 ELSE 2)
    /\ \A i \in 1..(Len(sstages) - 1) : sstages[i] >= 2 /\ sstages[i + 1] = sstages[i] + 1
    /\ shit # 0 => shit = sstages[Len(sstages)]
    /\ (shit # 0) => (spc = "done" /\ sresults # <<>>)
    /\ (spc = "done" /\ sresults # <<>>) => shit # 0

\* an exact hit for a query that is not of binomial shape: the search is over
\* and neither the fuzzy nor any later request was made
C10_Witness ==
    /\ sq = "text"
    /\ spc = "done"
    /\ sstages = <<2>>
    /\ shit = 2
    /\ sresults # <<>>

\* C11: a search for a query that is not numeric and has at least 2 characters
\* ends with the empty list only after the exact (2), fuzzy (3), vernacular
\* (4), encyclopedic (5) and article-title (6) stages have each run without a
\* record, queries of binomial shape included.
C11_EmptyOnlyAfterEveryStage ==
    (spc = "done" /\ sq \in {"binomial", "text"} /\ sresults = <<>>) =>
        sstages = <<2, 3, 4, 5, 6>>

C13_ResultsFromAcceptedRecords ==
    /\ Len(sfrom) = Len(sresults)
    /\ \A k \in 1..Len(sfrom) : sfrom[k]

\* ================================================= the enrichment

\* C14: a call whose base record is not fetched (or whose AphiaID is 0) or
\* has neither scientificname nor valid_name returns None, and none of the
\* four closures is started.
C14_NoFanOutWithoutUsableRecord ==
    (ecalls >= 1 /\ (eid = 0 \/ eup.base \in {"absent", "nameless"})) =>
        /\ epc = "done"
        /\ erecord = <<>>
        /\ \A k \in Tasks : efutures[k] = "unstarted"

\* the base record was requested and came back without a name
C14_Witness ==
    /\ ecalls = 1
    /\ eid = 1
    /\ eup.base = "nameless"
    /\ epc = "done"
    /\ enet = {"record"}

C16_AssembledAfterEveryAwait ==
    erecord # <<>> =>
        \A k \in Tasks :
            /\ eresults[k] # "unset"
            /\ efutures[k] \notin {"unstarted", "running"} \/ k \in egave

\* a record assembled after the first future timed out while the last
\* closure had already returned its data
C16_Witness ==
    /\ erecord # <<>>
    /\ "classification" \in egave
    /\ "wiki" \notin egave
    /\ eresults["wiki"] = "data"

\* C17: a call that repeats the last one returns the same record and sends
\* no request to the network.
C17_RepeatServedFromCache ==
    (epc = "done" /\ ecalls >= 2) =>
        /\ erecord = eprev
        /\ enet = {}

\* ================================================= the user interface

\* C18: the records shown were all delivered while the thread that found
\* them was the most recently started one: what a thread delivers after a
\* newer search or browse was started is not shown.
C18_LateResultsDiscarded ==
    \A i \in 1..Len(current_search_results) : ~current_search_results[i].late

\* ================================================= browsing

\* C19: no AphiaID occurs twice in the list one call collects, nor in the
\* slice it returns, whatever the order of the search terms and whatever
\* their searches return.
C19_NoDuplicateTaxonIds ==
    /\ \A i, j \in 1..Len(marine_species) :
          i # j => marine_species[i] # marine_species[j]
    /\ \A i, j \in 1..Len(breturn) : i # j => breturn[i] # breturn[j]

\* a call that returned two records although a search returned an AphiaID
\* that was already collected
C19_Witness ==
    /\ bpc = "done"
    /\ Len(breturn) = 2
    /\ \E s \in Seeds : breturn[1] \in Ran(bcatalog[s]) /\ bcatalog[s] # <<breturn[1]>>
    /\ \A s \in Seeds : breturn[1] \in Ran(bcatalog[s])

\* C20: when the searches of the catalog give at least offset + limit
\* distinct species, the call collects offset + limit of them and returns
\* limit records.
C20_ReturnsRequestedSlice ==
    (bpc = "done" /\ Cardinality(Species(bcatalog)) >= boffset + blimit) =>
        /\ Len(marine_species) = boffset + blimit
        /\ Len(breturn) = blimit

\* ================================================= the retry loop, continued

\* C22: a 429 at attempt index a (the a+1-th response) with a < retries is
\* followed by a wait of 2^(a+1) seconds, 2 s after the first response and
\* 4 s after the second, and by another attempt; a 429 at attempt index
\* retries ends the call, which stores None and returns None without a wait.
C22_BackoffOn429 ==
    \A i \in 1..Len(outcomes) :
        outcomes[i] = "s429" =>
            IF i - 1 < retries
            THEN /\ Len(sleeps) >= i
                 /\ sleeps[i] = 1000 * Pow2(i)
                 /\ i = 1 => sleeps[i] = 2000
                 /\ i = 2 => sleeps[i] = 4000
                 /\ pc = "attempt" \/ Len(outcomes) > i
            ELSE /\ i = Len(outcomes)
                 /\ Len(sleeps) = i - 1
                 /\ pc = "idle"
                 /\ storedNone
                 /\ result = None

\* three 429 answers in a row with the default budget: 2 s, 4 s, then None
C22_Witness ==
    /\ retries = 2
    /\ outcomes = <<"s429", "s429", "s429">>
    /\ sleeps = <<2000, 4000>>
    /\ pc = "idle"
    /\ result = None

\* C27: a response with a status of 400 or above other than 404 and 429 ends
\* the call at that attempt: None is stored and returned and no further
\* request is made, even when attempts remain.
C27_ServerErrorIsNotRetried ==
    \A i \in 1..Len(outcomes) :
        outcomes[i] = "s5xx" =>
            /\ i = Len(outcomes)
            /\ pc = "idle"
            /\ storedNone
            /\ result = None
            /\ Len(sleeps) = i - 1

\* a server error on the first of three allowed attempts
C27_Witness ==
    /\ retries = 2
    /\ outcomes = <<"s5xx">>
    /\ pc = "idle"
    /\ result = None
    /\ sleeps = <<>>

\* ================================================= the cache, expired entries

\* C28: an entry leaves the cache only through a get of its own key that
\* finds it expired, through the eviction of the least recently used entry
\* by a set of a new key on a full cache, or through clear.  Expired entries
\* count toward the capacity: such a set evicts exactly the least recently
\* used entry, expired or not, and keeps every other entry.
C28_ExpiredEntriesStayStored ==
    [][/\ \A k \in KeysOf(cache) \ KeysOf(cache') :
            \/ lastOp'.op = "clear"
            \/ /\ lastOp'.op = "get"
               /\ lastOp'.key = k
               /\ now - Entry(cache, k).t >= ttl
            \/ /\ lastOp'.op = "set"
               /\ ~Has(cache, lastOp'.key)
               /\ Len(cache) >= max_size
               /\ \A o \in KeysOf(cache) : stamp[k] <= stamp[o]
       /\ (lastOp'.op = "set" /\ ~Has(cache, lastOp'.key) /\ Len(cache) >= max_size) =>
            /\ Cardinality(KeysOf(cache) \ KeysOf(cache')) = 1
            /\ \A k \in KeysOf(cache) \ KeysOf(cache') :
                  \A o \in KeysOf(cache) : stamp[k] <= stamp[o]
      ]_vars

\* a set of a new key on a full cache that evicted an unexpired entry while
\* an expired entry is still stored
C28_Witness ==
    /\ lastOp.op = "set"
    /\ ~lastOp.present
    /\ lastOp.full
    /\ lastOp.evictedLive
    /\ \E i \in 1..Len(cache) : now - cache[i].t >= ttl

\* ================================================= the resolution chain, candidates

\* C23: the encyclopedic stages search at most 3 of the candidate names, in
\* the order of the candidate list; every candidate searched before the last
\* one gave no result, and what the stage returns is the result of the last
\* search it made (the retry with the article title comes after the names).
C23_AtMostThreeCandidatesFirstHitWins ==
    LET names == SelectSeq(scands, LAMBDA x : x # 0) IN
    /\ Len(names) <= 3
    /\ \A i \in 1..Len(names) : names[i] = i
    /\ Len(scres) = Len(scands)
    /\ \A i \in 1..(Len(scands) - 1) : scands[i] # 0 /\ scres[i] = <<>>
    /\ scands # <<>> => sresults = scres[Len(scands)]

\* the encyclopedic stage stopped at its second candidate, which gave a record
C23_Witness ==
    /\ sstages = <<2, 3, 4, 5>>
    /\ spc = "done"
    /\ scands = <<1, 2>>
    /\ scres[1] = <<>>
    /\ sresults # <<>>

\* C25: a call with offset > 0 collects nothing and returns the empty list,
\* whatever the searches of the catalog return.
C25_PositiveOffsetReturnsEmpty ==
    boffset > 0 =>
        /\ marine_species = <<>>
        /\ seen_aphia_ids = {}
        /\ breturn = <<>>

\* a call with offset 1 that ended empty although the searches gave at
\* least offset + limit distinct species
C25_Witness ==
    /\ bpc = "done"
    /\ boffset > 0
    /\ bterms = {}
    /\ Cardinality(Species(bcatalog)) >= boffset + blimit
    /\ breturn = <<>>

\* ================================================= Browse More

\* the number of records in the list
RECURSIVE Displayed(_)
Displayed(shown) ==
    IF shown = <<>> THEN 0 ELSE Head(shown).n + Displayed(Tail(shown))

\* C26: a thread started by Browse More is given the offset the window had
\* plus 5, which becomes the window's offset, and the limit 5, whatever the
\* number of records in the list; with 20 records in the list and the offset
\* 0 it is given offset 5.
C26_BrowseMoreAdvancesByIncrement ==
    [][\A t \in uthreads' \ uthreads :
          t.slot = "handle_browse_more_results" =>
             /\ t.browse_mode
             /\ t.browse_limit = 5
             /\ t.browse_offset = browse_offset + 5
             /\ browse_offset' = t.browse_offset
             /\ (browse_offset = 0 /\ Displayed(current_search_results) = 20) =>
                    (t.browse_offset = 5 /\ t.browse_offset # Displayed(current_search_results))
      ]_vars

\* the second Browse More after a browse that displayed 20 records: its
\* thread is given offset 10
C26_Witness ==
    /\ is_browsing
    /\ Displayed(current_search_results) = 20
    /\ browse_offset = 10
    /\ \E t \in uthreads : /\ t.slot = "handle_browse_more_results"
                           /\ t.browse_offset = 10
                           /\ t.browse_limit = 5

\* ================================================= ocean basins

\* the occurrences of the answer that carry both coordinates
LocatedOccurrences == {i \in 1..Len(occ_results) : Located(occ_results[i])}

\* C21: every occurrence that has both coordinates (longitude in
\* [-180, 180]) adds exactly one of the seven named basins to the set;
\* (lat 10, lon -40) gives North Atlantic and (lat 10, lon 120) North Pacific.
C21_EveryOccurrenceInOneBasin ==
    /\ Basin(10, -40) = {"North Atlantic"}
    /\ Basin(10, 120) = {"North Pacific"}
    /\ opc = "done" =>
          \A i \in LocatedOccurrences :
             LET lat == occ_results[i].decimalLatitude[1]
                 lon == occ_results[i].decimalLongitude[1] IN
             (-180 <= lon /\ lon <= 180) =>
                 /\ Cardinality(Basin(lat, lon)) = 1
                 /\ Basin(lat, lon) \subseteq NamedBasins
                 /\ Basin(lat, lon) \subseteq basins

\* C29: "Eastern Pacific" is never in the set nor in the list returned; an
\* occurrence with a longitude below -100 adds North Atlantic or South
\* Atlantic.
C29_NeverEasternPacific ==
    /\ "Eastern Pacific" \notin basins
    /\ "Eastern Pacific" \notin Ran(oreturn)
    /\ opc = "done" =>
          \A i \in LocatedOccurrences :
             occ_results[i].decimalLongitude[1] < -100 =>
                /\ Basin(occ_results[i].decimalLatitude[1], occ_results[i].decimalLongitude[1])
                      \in {{"North Atlantic"}, {"South Atlantic"}}
                /\ Ran(oreturn) \cap {"North Atlantic", "South Atlantic"} # {}

\* a call on an answer with occurrences at longitudes -120 and -180, north
\* and south of the equator
C29_Witness ==
    /\ opc = "done"
    /\ Len(occ_results) = 2
    /\ \A i \in 1..2 : Located(occ_results[i]) /\ occ_results[i].decimalLongitude[1] < -100
    /\ occ_results[1].decimalLatitude[1] > 0
    /\ occ_results[2].decimalLatitude[1] < 0
    /\ Ran(oreturn) = {"North Atlantic", "South Atlantic"}

\* ================================================= scientific names in a text

\* C24: no name returned has a first token in the reject list of lines
\* 807-809, a second token in COMMON_WORDS, or is a COMMON_FALSE_POSITIVES
\* phrase, whichever pattern found it.
C24_NoRejectedNameReturned ==
    \A i \in 1..Len(unique_names) :
        /\ unique_names[i][1].w \notin RejectFirst
        /\ unique_names[i][2].w \notin COMMON_WORDS
        /\ NameLower(unique_names[i]) \notin COMMON_FALSE_POSITIVES

\* the matches of the abbreviated-genus pattern in the text
AbbreviatedMatches == Ran(FindAll(ntext, 4, 1))

\* C30: a match of the abbreviated-genus pattern is not in the output: its
\* genus is a single letter; unless its second word is a common word it is
\* added to scientific_names, and the final filter, which keeps no name
\* with a genus of one letter, drops it.
C30_AbbreviatedGenusNeverReturned ==
    /\ \A i \in 1..Len(unique_names) : Len(unique_names[i][1].w) > 1
    /\ npc = "done" =>
          \A m \in AbbreviatedMatches :
             /\ Len(m.parts[1].w) = 1
             /\ m.parts \notin Ran(unique_names)
             /\ m.parts[2].w \notin COMMON_WORDS => m.parts \in Ran(scientific_names)

\* a text with "O. orca" and a full binomial: both are candidates, only the
\* binomial is returned
C30_Witness ==
    /\ npc = "done"
    /\ \E m \in AbbreviatedMatches : m.parts \in Ran(scientific_names)
    /\ Len(scientific_names) = 2
    /\ Len(unique_names) = 1

====
